---- MODULE Spec2Model ----
(***************************************************************************)
(* A model of the transcript-to-notes pipeline of streamlit_app.py and     *)
(* utils.py: the segmenter (split_transcript_by_parts,                     *)
(* preprocess_transcript), the response normalizer                         *)
(* (run_analysis_and_summarize), the result merger                         *)
(* (merge_all_json_outputs) and the sequential chunk driver.               *)
(*                                                                         *)
(* A Python str is a sequence of one-character strings.  Any other Python  *)
(* value is a record tagged by its type, each type with its own field:     *)
(*   None   [t |-> "none"]                                                 *)
(*   str    [t |-> "str",  s |-> <<chars>>]                                *)
(*   int    [t |-> "int",  n |-> 0..]                                      *)
(*   bool   [t |-> "bool", b |-> TRUE or FALSE]                            *)
(*   list   [t |-> "list", l |-> <<values>>]                               *)
(*   dict   [t |-> "dict", d |-> <<[k |-> chars, v |-> value], ...>>]      *)
(*          (the entries in insertion order, the keys distinct)            *)
(***************************************************************************)
EXTENDS Integers, Sequences, FiniteSets, TLC

VARIABLES
    transcript, num_parts, split_ret,    \* split_transcript_by_parts: arguments, return
    pre_text, pre_ret,                   \* preprocess_transcript: argument, return
    norm_key, norm_gen, norm_ret,        \* run_analysis_and_summarize: api_key, what the
                                         \*   generation call gives, return
    snake_key, snake_out,                \* the key conversion of utils.py 279: a key, the
                                         \*   keys got by converting it again and again
    m_results, m_combined, m_idx, m_pc,  \* merge_all_json_outputs: argument, combined,
                                         \*   chunk results done, position
    m_prev,                              \* what the call before this one returned, when
                                         \*   this call is given that alone (None: no such call)
    \* the driver (streamlit_app.py 327-457)
    processing, chunked_results, pdf_ready,    \* st.session_state
    pc,                                  \* position of the script run
    api_key, transcript_parts, part_no,  \* locals of a run; part_no is i of line 365
    error_shown,                         \* the st.error of line 381 of this run
    combined_data,                       \* line 415, of this script run
    calls, failed_part,                  \* history of this run: the parts analysed,
                                         \*   the part that failed (0: none),
    call_rets                            \*   how each analysis ended, in call order

vars_split == <<transcript, num_parts, split_ret>>
vars_pre == <<pre_text, pre_ret>>
vars_norm == <<norm_key, norm_gen, norm_ret>>
vars_snake == <<snake_key, snake_out>>
vars_merge == <<m_results, m_combined, m_idx, m_pc, m_prev>>
vars_driver == <<processing, chunked_results, pdf_ready, pc, api_key, transcript_parts,
                 part_no, error_shown, combined_data, calls, failed_part, call_rets>>
vars == <<vars_split, vars_pre, vars_norm, vars_snake, vars_merge, vars_driver>>

\* What a step of one part of the program leaves alone
rest_of_split == <<vars_pre, vars_norm, vars_snake, vars_merge, vars_driver>>
rest_of_pre == <<vars_split, vars_norm, vars_snake, vars_merge, vars_driver>>
rest_of_norm == <<vars_split, vars_pre, vars_snake, vars_merge, vars_driver>>
rest_of_snake == <<vars_split, vars_pre, vars_norm, vars_merge, vars_driver>>
rest_of_merge == <<vars_split, vars_pre, vars_norm, vars_snake, vars_driver>>
rest_of_driver == <<vars_split, vars_pre, vars_norm, vars_snake, vars_merge>>

---------------------------------------------------------------------------
(* Python values *)

None == [t |-> "none"]
PyStr(s) == [t |-> "str", s |-> s]
PyInt(n) == [t |-> "int", n |-> n]
PyList(l) == [t |-> "list", l |-> l]
PyDict(d) == [t |-> "dict", d |-> d]
PyBool(b) == [t |-> "bool", b |-> b]

Max(a, b) == IF a >= b THEN a ELSE b
Min(a, b) == IF a <= b THEN a ELSE b

RECURSIVE Flatten(_)
Flatten(ss) == IF ss = <<>> THEN <<>> ELSE Head(ss) \o Flatten(Tail(ss))

\* All sequences over S of length 0..n.
SeqsUpTo(S, n) == UNION {[1..m -> S] : m \in 0..n}

---------------------------------------------------------------------------
(* str helpers *)

IsSpace(c) == c \in {" ", "\t", "\n"}
IsDigit(c) == c \in {"0", "1", "2", "3", "4", "5", "6", "7", "8", "9"}

RECURSIVE LStrip(_)
LStrip(s) == IF s # <<>> /\ IsSpace(Head(s)) THEN LStrip(Tail(s)) ELSE s

RECURSIVE RStrip(_)
RStrip(s) == IF s # <<>> /\ IsSpace(s[Len(s)]) THEN RStrip(SubSeq(s, 1, Len(s) - 1)) ELSE s

\* str.strip()
Strip(s) == RStrip(LStrip(s))

\* s[a:b] for 0 <= a, b <= len(s) (Python offsets)
Slice(s, a, b) == SubSeq(s, a + 1, b)

---------------------------------------------------------------------------
(* split_transcript_by_parts, streamlit_app.py 93-106 *)

ClampParts_unclamped(n, length) == Max(1, n)

\* line 98
ClampParts(n, length) == Max(1, Min(n, length))

PartEnd_norem(i, n, part_size, length) == (i + 1) * part_size

\* line 104: the last part absorbs the remainder
PartEnd(i, n, part_size, length) == IF i < n - 1 THEN (i + 1) * part_size ELSE length

split_transcript_by_parts(text, k) ==
    LET length == Len(text)
        n == ClampParts(k, length)
        part_size == length \div n
    IN  [j \in 1..n |-> Slice(text, (j - 1) * part_size, PartEnd(j - 1, n, part_size, length))]

---------------------------------------------------------------------------
(* preprocess_transcript, streamlit_app.py 73-91 *)

CharAt(text, p, c) == p >= 1 /\ p <= Len(text) /\ text[p] = c
DigitAt(text, p) == p >= 1 /\ p <= Len(text) /\ IsDigit(text[p])

NoMatch == [t |-> "none"]

\* One attempt of the pattern \[?(\d{1,2}:\d{2}(?::\d{2})?)\]? at offset p
\* (line 76).  start, end, g1s, g1e are Python offsets: the match is
\* text[start:end], group 1 is text[g1s:g1e].  Every quantifier is greedy and
\* none can give back: after "[" a digit must follow, after two digits ":".
MatchAt(text, p) ==
    LET g == IF CharAt(text, p + 1, "[") THEN p + 1 ELSE p
        m == IF DigitAt(text, g + 1) /\ DigitAt(text, g + 2) THEN g + 2 ELSE g + 1
        ok == /\ DigitAt(text, g + 1)
              /\ CharAt(text, m + 1, ":")
              /\ DigitAt(text, m + 2)
              /\ DigitAt(text, m + 3)
        e1 == m + 3
        e2 == IF CharAt(text, e1 + 1, ":") /\ DigitAt(text, e1 + 2) /\ DigitAt(text, e1 + 3)
              THEN e1 + 3 ELSE e1
        e3 == IF CharAt(text, e2 + 1, "]") THEN e2 + 1 ELSE e2
    IN  IF ok THEN [t |-> "match", start |-> p, end |-> e3, g1s |-> g, g1e |-> e2]
        ELSE NoMatch

\* re.finditer: the non-overlapping matches, leftmost first (line 77)
RECURSIVE FindIter(_, _)
FindIter(text, p) ==
    IF p >= Len(text) THEN <<>>
    ELSE LET m == MatchAt(text, p)
         IN  IF m = NoMatch THEN FindIter(text, p + 1)
             ELSE <<m>> \o FindIter(text, m.end)

Group1(text, m) == Slice(text, m.g1s, m.g1e)

\* lines 88-89: the "time" of a segment is the matched text itself
SegTime(ts) == PyStr(ts)

\* line 82
NoTimestampTime == PyStr(<<"0", "0", ":", "0", "0">>)

preprocess_transcript(text) ==
    LET matches == FindIter(text, 0)
    IN  IF matches = <<>>
        THEN IF text # <<>>
             THEN <<[time |-> NoTimestampTime, text |-> Strip(text)]>>
             ELSE <<>>
        ELSE [i \in 1..Len(matches) |->
                LET start == matches[i].end
                    end == IF i + 1 <= Len(matches) THEN matches[i + 1].start ELSE Len(text)
                IN  [time |-> SegTime(Group1(text, matches[i])),
                     text |-> Strip(Slice(text, start, end))]]

---------------------------------------------------------------------------
(* More of Python: characters, truthiness, dicts, str() *)

\* The characters of the model in code point order.
CodeOrder ==
    <<" ", "&", "'", ",", "0", "1", "2", "3", "4", "5", "6", "7", "8",
       "9", ":", "A", "B", "C", "D", "E", "F", "G", "H", "I", "J", "K",
       "L", "M", "N", "O", "P", "Q", "R", "S", "T", "U", "V", "W", "X",
       "Y", "Z", "[", "]", "_", "a", "b", "c", "d", "e", "f", "g", "h",
       "i", "j", "k", "l", "m", "n", "o", "p", "q", "r", "s", "t", "u",
       "v", "w", "x", "y", "z", "{", "}">>

Ord(c) == CHOOSE i \in 1..Len(CodeOrder) : CodeOrder[i] = c

UpperCase ==
    <<"A", "B", "C", "D", "E", "F", "G", "H", "I", "J", "K", "L", "M",
       "N", "O", "P", "Q", "R", "S", "T", "U", "V", "W", "X", "Y", "Z">>
LowerCase ==
    <<"a", "b", "c", "d", "e", "f", "g", "h", "i", "j", "k", "l", "m",
       "n", "o", "p", "q", "r", "s", "t", "u", "v", "w", "x", "y", "z">>

\* [A-Z]
IsUpper(c) == \E i \in 1..26 : UpperCase[i] = c

\* str.lower() on one character
Lower(c) == IF IsUpper(c) THEN LowerCase[CHOOSE i \in 1..26 : UpperCase[i] = c] ELSE c

RECURSIVE StrLess(_, _)
\* a < b on str
StrLess(a, b) ==
    IF b = <<>> THEN FALSE
    ELSE IF a = <<>> THEN TRUE
    ELSE IF Head(a) = Head(b) THEN StrLess(Tail(a), Tail(b))
    ELSE Ord(Head(a)) < Ord(Head(b))

\* bool(v)
Truthy(v) ==
    CASE v.t = "none" -> FALSE
      [] v.t = "str" -> v.s # <<>>
      [] v.t = "int" -> v.n # 0
      [] v.t = "bool" -> v.b
      [] v.t = "list" -> v.l # <<>>
      [] v.t = "dict" -> v.d # <<>>

\* k in d, d[k], d[k] = v on the entries of a dict
DictHas(d, k) == \E i \in 1..Len(d) : d[i].k = k
DictGet(d, k) == d[CHOOSE i \in 1..Len(d) : d[i].k = k].v
DictSet(d, k, v) ==
    IF DictHas(d, k)
    THEN [i \in 1..Len(d) |-> IF d[i].k = k THEN [k |-> k, v |-> v] ELSE d[i]]
    ELSE Append(d, [k |-> k, v |-> v])

RECURSIVE DictFromPairs(_, _)
\* A dict filled from (key, value) pairs in order, starting from d: a key
\* met again keeps its place and takes the later value.
DictFromPairs(d, pairs) ==
    IF pairs = <<>> THEN d
    ELSE DictFromPairs(DictSet(d, Head(pairs).k, Head(pairs).v), Tail(pairs))

RECURSIVE JoinWith(_, _)
\* sep.join(parts)
JoinWith(sep, parts) ==
    IF parts = <<>> THEN <<>>
    ELSE IF Len(parts) = 1 THEN Head(parts)
    ELSE Head(parts) \o sep \o JoinWith(sep, Tail(parts))

RECURSIVE IntDigits(_)
IntDigits(n) ==
    IF n < 10 THEN <<CodeOrder[Ord("0") + n]>>
    ELSE IntDigits(n \div 10) \o <<CodeOrder[Ord("0") + (n % 10)]>>

RECURSIVE Repr(_)
\* repr(v), for strings without quotes or escapes
Repr(v) ==
    CASE v.t = "none" -> <<"N", "o", "n", "e">>
      [] v.t = "str" -> <<"'">> \o v.s \o <<"'">>
      [] v.t = "int" -> IntDigits(v.n)
      [] v.t = "list" ->
            <<"[">> \o JoinWith(<<",", " ">>, [i \in 1..Len(v.l) |-> Repr(v.l[i])]) \o <<"]">>
      [] v.t = "dict" ->
            <<"{">> \o JoinWith(<<",", " ">>,
                        [i \in 1..Len(v.d) |->
                            Repr(PyStr(v.d[i].k)) \o <<":", " ">> \o Repr(v.d[i].v)])
                   \o <<"}">>

StrOf_repr(v) == Repr(v)

\* str(v)
StrOf(v) == IF v.t = "str" THEN v.s ELSE Repr(v)

---------------------------------------------------------------------------
(* Configuration, streamlit_app.py 15-25 *)

main_subject == <<"m", "a", "i", "n", "_", "s", "u", "b", "j", "e", "c", "t">>
topic_breakdown == <<"t", "o", "p", "i", "c", "_", "b", "r", "e", "a", "k", "d", "o", "w", "n">>
key_vocabulary == <<"k", "e", "y", "_", "v", "o", "c", "a", "b", "u", "l", "a", "r", "y">>
formulas_and_principles == <<"f", "o", "r", "m", "u", "l", "a", "s", "_", "a", "n", "d", "_", "p", "r", "i", "n", "c", "i", "p", "l", "e", "s">>
teacher_insights == <<"t", "e", "a", "c", "h", "e", "r", "_", "i", "n", "s", "i", "g", "h", "t", "s">>
exam_focus_points == <<"e", "x", "a", "m", "_", "f", "o", "c", "u", "s", "_", "p", "o", "i", "n", "t", "s">>
common_mistakes_explained == <<"c", "o", "m", "m", "o", "n", "_", "m", "i", "s", "t", "a", "k", "e", "s", "_", "e", "x", "p", "l", "a", "i", "n", "e", "d">>
key_points == <<"k", "e", "y", "_", "p", "o", "i", "n", "t", "s">>
short_tricks == <<"s", "h", "o", "r", "t", "_", "t", "r", "i", "c", "k", "s">>
must_remembers == <<"m", "u", "s", "t", "_", "r", "e", "m", "e", "m", "b", "e", "r", "s">>

LABEL_TO_KEY == <<
    [label |-> <<"T", "o", "p", "i", "c", " ", "B", "r", "e", "a", "k", "d", "o", "w", "n">>,
     key |-> topic_breakdown],
    [label |-> <<"K", "e", "y", " ", "V", "o", "c", "a", "b", "u", "l", "a", "r", "y">>,
     key |-> key_vocabulary],
    [label |-> <<"F", "o", "r", "m", "u", "l", "a", "s", " ", "&", " ", "P", "r", "i", "n", "c", "i", "p", "l", "e", "s">>,
     key |-> formulas_and_principles],
    [label |-> <<"T", "e", "a", "c", "h", "e", "r", " ", "I", "n", "s", "i", "g", "h", "t", "s">>,
     key |-> teacher_insights],
    [label |-> <<"E", "x", "a", "m", " ", "F", "o", "c", "u", "s", " ", "P", "o", "i", "n", "t", "s">>,
     key |-> exam_focus_points],
    [label |-> <<"C", "o", "m", "m", "o", "n", " ", "M", "i", "s", "t", "a", "k", "e", "s">>,
     key |-> common_mistakes_explained],
    [label |-> <<"K", "e", "y", " ", "P", "o", "i", "n", "t", "s">>,
     key |-> key_points],
    [label |-> <<"S", "h", "o", "r", "t", " ", "T", "r", "i", "c", "k", "s">>,
     key |-> short_tricks],
    [label |-> <<"M", "u", "s", "t", " ", "R", "e", "m", "e", "m", "b", "e", "r", "s">>,
     key |-> must_remembers] >>

\* line 110
LIST_KEYS == [i \in 1..Len(LABEL_TO_KEY) |-> LABEL_TO_KEY[i].key]

ListKeySet == {LIST_KEYS[i] : i \in 1..Len(LIST_KEYS)}

\* LABEL_TO_KEY.get(k, k)
LabelToKeyGet(k) ==
    IF \E i \in 1..Len(LABEL_TO_KEY) : LABEL_TO_KEY[i].label = k
    THEN LABEL_TO_KEY[CHOOSE i \in 1..Len(LABEL_TO_KEY) : LABEL_TO_KEY[i].label = k].key
    ELSE k

---------------------------------------------------------------------------
(* merge_all_json_outputs, streamlit_app.py 108-143 *)

\* The last section key left out
MergeInit_short ==
    <<[k |-> main_subject, v |-> PyStr(<<>>)]>>
        \o [i \in 1..(Len(LIST_KEYS) - 1) |-> [k |-> LIST_KEYS[i], v |-> PyList(<<>>)]]

\* lines 112-115
MergeInit ==
    <<[k |-> main_subject, v |-> PyStr(<<>>)]>>
        \o [i \in 1..Len(LIST_KEYS) |-> [k |-> LIST_KEYS[i], v |-> PyList(<<>>)]]

\* line 118
ResNormalized(res) ==
    DictFromPairs(<<>>, [i \in 1..Len(res) |-> [k |-> LabelToKeyGet(res[i].k), v |-> res[i].v]])

AdoptsSubject_always(current, v) == Truthy(v)

\* line 122
AdoptsSubject(current, v) == ~Truthy(current) /\ Truthy(v)

ExtendList_prepend(old, new) == new \o old

\* line 127: list.extend
ExtendList(old, new) == old \o new

\* lines 121-127: one (k, v) of a chunk result
MergeEntry(combined, k, v) ==
    IF k = main_subject
    THEN IF AdoptsSubject(DictGet(combined, main_subject), v)
         THEN DictSet(combined, main_subject, PyStr(Strip(StrOf(v))))
         ELSE combined
    ELSE IF v.t = "list" /\ k \in ListKeySet
         THEN DictSet(combined, k, PyList(ExtendList(DictGet(combined, k).l, v.l)))
         ELSE combined

RECURSIVE MergeEntries(_, _)
MergeEntries(combined, entries) ==
    IF entries = <<>> THEN combined
    ELSE MergeEntries(MergeEntry(combined, Head(entries).k, Head(entries).v), Tail(entries))

\* lines 117-127: one chunk result
MergeChunk(combined, res) == MergeEntries(combined, ResNormalized(res))

RECURSIVE SortedInsert(_, _)
SortedInsert(sorted, e) ==
    IF sorted = <<>> THEN <<e>>
    ELSE IF StrLess(e.k, Head(sorted).k) THEN <<e>> \o sorted
    ELSE <<Head(sorted)>> \o SortedInsert(Tail(sorted), e)

RECURSIVE SortEntries(_)
SortEntries(d) == IF d = <<>> THEN <<>> ELSE SortedInsert(SortEntries(Tail(d)), Head(d))

JsonDumpsSorted_unsorted(v) == v

RECURSIVE JsonDumpsSorted(_)
\* line 135, json.dumps(item, sort_keys=True).  The text is stood for by the
\* value with the entries of every dict in it put in key order: two values
\* serialize to the same text exactly when these are equal.
JsonDumpsSorted(v) ==
    CASE v.t = "dict" ->
            PyDict(SortEntries([i \in 1..Len(v.d) |->
                                   [k |-> v.d[i].k, v |-> JsonDumpsSorted(v.d[i].v)]]))
      [] v.t = "list" -> PyList([i \in 1..Len(v.l) |-> JsonDumpsSorted(v.l[i])])
      [] OTHER -> v

SeenAdd_forget(seen, h) == seen

\* line 139
SeenAdd(seen, h) == seen \cup {h}

RECURSIVE UniqueItems(_, _, _)
\* lines 131-139
UniqueItems(items, unique_items, seen_hashes) ==
    IF items = <<>> THEN unique_items
    ELSE LET item == Head(items)
             item_hash == JsonDumpsSorted(item)
         IN  IF item_hash \notin seen_hashes
             THEN UniqueItems(Tail(items), Append(unique_items, item),
                              SeenAdd(seen_hashes, item_hash))
             ELSE UniqueItems(Tail(items), unique_items, seen_hashes)

\* lines 129-141
DedupAll(combined) ==
    [i \in 1..Len(combined) |->
        IF combined[i].k \in ListKeySet /\ Truthy(combined[i].v)
        THEN [k |-> combined[i].k, v |-> PyList(UniqueItems(combined[i].v.l, <<>>, {}))]
        ELSE combined[i]]

RECURSIVE MergeChunks(_, _)
MergeChunks(combined, results) ==
    IF results = <<>> THEN combined
    ELSE MergeChunks(MergeChunk(combined, Head(results)), Tail(results))

\* The entries of the dict returned for the chunk results `results` (each the
\* entries of a dict).
merge_all_json_outputs(results) == DedupAll(MergeChunks(MergeInit, results))

---------------------------------------------------------------------------
(* run_analysis_and_summarize, utils.py 219-308 *)

\* line 279: re.sub(r'(?<!^)(?=[A-Z])', '_', key) puts "_" before every
\* upper-case letter that is not at offset 0
InsertUnderscores(key) ==
    Flatten([i \in 1..Len(key) |->
                IF i > 1 /\ IsUpper(key[i]) THEN <<"_", key[i]>> ELSE <<key[i]>>])

StrLower_keep(s) == s

\* str.lower()
StrLower(s) == [i \in 1..Len(s) |-> Lower(s[i])]

\* line 279
ToSnake(key) == StrLower(InsertUnderscores(key))

\* The text of a response is a sequence of tokens:
\*   [t |-> "prose"]       text with no brace and no fence in it
\*   [t |-> "fence_json"]  ```json      [t |-> "fence"]  ```
\*   [t |-> "lbrace"]  {   [t |-> "rbrace"]  }
\*   [t |-> "pair", k |-> key, v |-> value]   "key": value (with its comma)
\*   [t |-> "deep"]    "key": [[[ ... ]]] nested deeper than the interpreter's
\*                     recursion limit
TokProse == [t |-> "prose"]
TokFenceJson == [t |-> "fence_json"]
TokFence == [t |-> "fence"]
TokLBrace == [t |-> "lbrace"]
TokRBrace == [t |-> "rbrace"]
TokPair(k, v) == [t |-> "pair", k |-> k, v |-> v]
TokDeep == [t |-> "deep"]

\* utils.py 99-100: the two re.sub that remove the code fences
StripFences(text) == SelectSeq(text, LAMBDA tok : tok.t \notin {"fence_json", "fence"})

\* utils.py 96-106.  re.search(r'\{.*\}', ..., re.DOTALL): from the first "{"
\* to the last "}" after it; None when there is no such pair.
extract_clean_json(response_text) ==
    LET text == StripFences(response_text)
        opens == {i \in 1..Len(text) : text[i].t = "lbrace"}
        closes == {i \in 1..Len(text) : text[i].t = "rbrace"}
        first == CHOOSE i \in opens : \A j \in opens : i <= j
        last == CHOOSE i \in closes : \A j \in closes : i >= j
    IN  IF opens # {} /\ closes # {} /\ first < last
        THEN PyStr(SubSeq(text, first, last))
        ELSE None

JSONDecodeError == [t |-> "JSONDecodeError"]
RecursionError == [t |-> "RecursionError"]

\* line 273, json.loads on a candidate that starts with "{" and ends with
\* "}": a dict when the tokens between are pairs; otherwise the decoder,
\* which reads from left to right, raises at the first token that is not a
\* pair, a RecursionError when that is a value nested too deep and a
\* JSONDecodeError when it is anything else.  A repeated key keeps its
\* place and takes the later value.
JsonLoads(candidate) ==
    LET inner == SubSeq(candidate, 2, Len(candidate) - 1)
        bad == {i \in 1..Len(inner) : inner[i].t # "pair"}
        first_bad == CHOOSE i \in bad : \A j \in bad : i <= j
    IN  IF bad = {}
        THEN PyDict(DictFromPairs(<<>>, [i \in 1..Len(inner) |->
                                            [k |-> inner[i].k, v |-> inner[i].v]]))
        ELSE IF inner[first_bad].t = "deep" THEN RecursionError
        ELSE JSONDecodeError

\* lines 276-280
NormalizeKeys(json_data) ==
    DictFromPairs(<<>>, [i \in 1..Len(json_data) |->
                            [k |-> ToSnake(json_data[i].k), v |-> json_data[i].v]])

\* An error message (a str whose characters nothing reads)
Msg(m) == [t |-> "msg", m |-> m]

\* What model.generate_content and extract_gemini_text (lines 257-258) give:
\*   [t |-> "raise"]                        the call raised an exception that
\*                                          is not a json.JSONDecodeError
\*   [t |-> "raise_decode"]                 the call raised a json.JSONDecodeError
\*                                          (or an exception derived from it)
\*   [t |-> "text", text |-> None]          no text in the response
\*   [t |-> "text", text |-> PyStr(tokens)] the response text
GenRaise == [t |-> "raise"]
GenRaiseDecodeError == [t |-> "raise_decode"]
GenText(text) == [t |-> "text", text |-> text]

\* How a call ends.  It returns (data, error_msg, full_prompt), full_prompt
\* stood for by the transcript segments built into it (lines 227-239), or an
\* exception leaves it: exc is then its class, and None otherwise.
Returned(data, error_msg, segments) ==
    [data |-> data, err |-> error_msg, prompt |-> segments, exc |-> None]
Raised(exc) == [data |-> None, err |-> None, prompt |-> None, exc |-> [t |-> "exc", class |-> exc]]

run_analysis_and_summarize(key, transcript_segments, gen) ==
    IF key = <<>>
    THEN Returned(None, Msg("API Key Missing"), transcript_segments)
    ELSE IF gen.t = "raise"
    THEN Returned(None, Msg("Gemini API Error"), transcript_segments)
    ELSE IF gen.t = "raise_decode"
    \* The handler of line 302 runs and reads cleaned_response at line 304,
    \* which line 268 has not yet assigned.
    THEN Raised("UnboundLocalError")
    ELSE IF ~Truthy(gen.text)
    THEN Returned(None, Msg("Empty response from model."), transcript_segments)
    ELSE LET cleaned_response == extract_clean_json(gen.text.s)
         IN  IF ~Truthy(cleaned_response)
             THEN Returned(None, Msg("Could not extract JSON from response."),
                           transcript_segments)
             ELSE LET json_data == JsonLoads(cleaned_response.s)
                  IN  IF json_data = JSONDecodeError
                      THEN Returned(None, Msg("JSON PARSE ERROR"), transcript_segments)
                      \* line 306: any other exception of lines 245-300
                      ELSE IF json_data = RecursionError
                      THEN Returned(None, Msg("Gemini API Error"), transcript_segments)
                      ELSE Returned(PyDict(NormalizeKeys(json_data.d)), None,
                                    transcript_segments)

---------------------------------------------------------------------------
(* Bounds and input sets *)

MaxLen == 4
MaxParts == 5
MaxPieces == 3
MaxTokens == 4
MaxChunks == 3
MaxDivisions == 3
MaxKeyLen == 4

SplitChars == {"a", "b"}
SplitTexts == SeqsUpTo(SplitChars, MaxLen)
SplitCounts == (0 - 1)..MaxParts

Pieces == { <<"[">>, <<"]">>, <<" ">>, <<"a">>, <<"1">>, <<":", "0", "5">>,
            <<"0", ":", "1", "0">>, <<"0", "0", ":", "4", "5">> }
PreTexts == {Flatten(ps) : ps \in SeqsUpTo(Pieces, MaxPieces)}

\* Items of a section: two records with the same fields written in a
\* different order, a record with other fields, a plain string, a record
\* with the fields of the first and another value.
K_text == <<"t", "e", "x", "t">>
K_time == <<"t", "i", "m", "e">>
ItemA == PyDict(<<[k |-> K_text, v |-> PyStr(<<"a">>)], [k |-> K_time, v |-> PyInt(1)]>>)
ItemA2 == PyDict(<<[k |-> K_time, v |-> PyInt(1)], [k |-> K_text, v |-> PyStr(<<"a">>)]>>)
ItemB == PyDict(<<[k |-> K_text, v |-> PyStr(<<"b">>)]>>)
ItemC == PyDict(<<[k |-> K_text, v |-> PyStr(<<"a">>)], [k |-> K_time, v |-> PyInt(2)]>>)
ItemS == PyStr(<<"a">>)

\* Keys as a model may write them
K_keyPoints == <<"k", "e", "y", "P", "o", "i", "n", "t", "s">>
K_mainSubject == <<"m", "a", "i", "n", "S", "u", "b", "j", "e", "c", "t">>
K_KeyPoints_label == <<"K", "e", "y", " ", "P", "o", "i", "n", "t", "s">>
K_extra == <<"e", "x", "t", "r", "a">>

K_topicBreakdown == <<"t", "o", "p", "i", "c", "B", "r", "e", "a", "k", "d", "o", "w", "n">>

\* The keys of the key conversion's specification
SnakeChars == {"a", "B", "Z", "_", "1"}
SnakeKeys ==
    SeqsUpTo(SnakeChars, MaxKeyLen)
        \cup {K_topicBreakdown, topic_breakdown, K_keyPoints, K_mainSubject, K_KeyPoints_label}

S_Calc == <<" ", "C", "a", "l", "c", " ">>
S_Ign == <<"I", "g", "n">>
S_blank == <<" ", " ">>

\* The response texts of the normalizer's specification
NormPairs == { TokPair(K_keyPoints, PyList(<<ItemA>>)),
               TokPair(key_points, PyStr(<<"x">>)),
               TokPair(K_mainSubject, PyStr(S_Calc)),
               TokPair(short_tricks, PyList(<<>>)) }
NormTokens == {TokProse, TokFenceJson, TokFence, TokLBrace, TokRBrace, TokDeep} \cup NormPairs
NormGens == {GenRaise, GenRaiseDecodeError, GenText(None)}
                \cup {GenText(PyStr(text)) : text \in SeqsUpTo(NormTokens, MaxTokens)}
ApiKeys == {<<>>, <<"k">>}

\* The chunk results of the merger's specification: what the normalizer
\* returns for these parsed objects
MergeObjects == {
    <<>>,
    <<[k |-> main_subject, v |-> PyStr(<<>>)]>>,
    <<[k |-> K_mainSubject, v |-> PyStr(S_blank)],
      [k |-> K_keyPoints, v |-> PyList(<<ItemA, ItemB>>)]>>,
    <<[k |-> main_subject, v |-> PyStr(S_Calc)],
      [k |-> key_points, v |-> PyList(<<ItemA2, ItemS>>)]>>,
    <<[k |-> key_points, v |-> PyList(<<ItemB, ItemA>>)],
      [k |-> short_tricks, v |-> PyList(<<ItemA, ItemA>>)],
      [k |-> main_subject, v |-> PyStr(S_Ign)]>>,
    <<[k |-> main_subject, v |-> PyList(<<>>)],
      [k |-> key_points, v |-> PyStr(<<"x">>)]>>,
    <<[k |-> main_subject, v |-> PyList(<<PyStr(<<"x">>)>>)],
      [k |-> short_tricks, v |-> PyList(<<ItemC, ItemA2>>)]>>,
    <<[k |-> K_KeyPoints_label, v |-> PyList(<<ItemB>>)],
      [k |-> K_extra, v |-> PyList(<<ItemA>>)]>> }
ChunkResults == {NormalizeKeys(obj) : obj \in MergeObjects}

\* The driver's inputs
DriverTexts == { <<"a">>, <<"a", "b">>, <<"0", ":", "1", "0", "a">>,
                 <<"a", " ", "0", ":", "1", "0", " ", "b">> }
Models == {"gemini-2.5-pro", "gemini-2.5-flash"}
Divisions == 1..MaxDivisions
DriverGens == {
    GenRaise,
    GenRaiseDecodeError,
    GenText(None),
    GenText(PyStr(<<TokProse>>)),
    GenText(PyStr(<<TokLBrace, TokProse, TokRBrace>>)),
    GenText(PyStr(<<TokLBrace, TokRBrace>>)),
    GenText(PyStr(<<TokFenceJson, TokLBrace,
                    TokPair(K_mainSubject, PyStr(S_Calc)),
                    TokPair(K_keyPoints, PyList(<<ItemA>>)), TokRBrace, TokFence>>)),
    GenText(PyStr(<<TokLBrace, TokPair(key_points, PyList(<<ItemA2, ItemB>>)), TokRBrace>>)) }

---------------------------------------------------------------------------
(* Each specification runs one part of the program; the others rest. *)

IdleSplit == transcript = <<>> /\ num_parts = 1 /\ split_ret = None
IdlePre == pre_text = <<>> /\ pre_ret = None
IdleNorm == norm_key = <<>> /\ norm_gen = GenRaise /\ norm_ret = None
IdleSnake == snake_key = <<>> /\ snake_out = <<>>
IdleMerge ==
    m_results = <<>> /\ m_combined = None /\ m_idx = 0 /\ m_pc = "idle" /\ m_prev = None

\* streamlit_app.py 48-57: the session state of a new session
InitDriver ==
    /\ processing = FALSE
    /\ chunked_results = <<>>
    /\ pdf_ready = None
    /\ pc = "idle"
    /\ api_key = <<>>
    /\ transcript_parts = <<>>
    /\ part_no = 0
    /\ error_shown = None
    /\ combined_data = None
    /\ calls = <<>>
    /\ failed_part = 0
    /\ call_rets = <<>>

---------------------------------------------------------------------------
(* split_transcript_by_parts as a function of its arguments *)

CallSplit ==
    /\ split_ret = None
    /\ split_ret' = PyList(split_transcript_by_parts(transcript, num_parts))
    /\ UNCHANGED <<transcript, num_parts, rest_of_split>>

InitSplit ==
    /\ transcript \in SplitTexts
    /\ num_parts \in SplitCounts
    /\ split_ret = None
    /\ IdlePre /\ IdleNorm /\ IdleSnake /\ IdleMerge /\ InitDriver

NextSplit == CallSplit

SpecSplit == InitSplit /\ [][NextSplit]_vars

---------------------------------------------------------------------------
(* preprocess_transcript as a function of its argument *)

CallPreprocess ==
    /\ pre_ret = None
    /\ pre_ret' = PyList(preprocess_transcript(pre_text))
    /\ UNCHANGED <<pre_text, rest_of_pre>>

InitPre ==
    /\ pre_text \in PreTexts
    /\ pre_ret = None
    /\ IdleSplit /\ IdleNorm /\ IdleSnake /\ IdleMerge /\ InitDriver

NextPre == CallPreprocess

SpecPre == InitPre /\ [][NextPre]_vars

---------------------------------------------------------------------------
(* run_analysis_and_summarize as a function of the key and of what the      *)
(* generation call gives                                                   *)

CallAnalysis ==
    /\ norm_ret = None
    /\ norm_ret' = run_analysis_and_summarize(norm_key, <<>>, norm_gen)
    /\ UNCHANGED <<norm_key, norm_gen, rest_of_norm>>

InitNorm ==
    /\ norm_key \in ApiKeys
    /\ norm_gen \in NormGens
    /\ norm_ret = None
    /\ IdleSplit /\ IdlePre /\ IdleSnake /\ IdleMerge /\ InitDriver

NextNorm == CallAnalysis

SpecNorm == InitNorm /\ [][NextNorm]_vars

---------------------------------------------------------------------------
(* The key conversion of run_analysis_and_summarize (utils.py 279), applied  *)
(* to a key and then to its own result                                      *)

MaxConversions == 2

CallToSnake ==
    /\ Len(snake_out) < MaxConversions
    /\ snake_out' = Append(snake_out,
                           ToSnake(IF snake_out = <<>> THEN snake_key
                                   ELSE snake_out[Len(snake_out)]))
    /\ UNCHANGED <<snake_key, rest_of_snake>>

InitSnake ==
    /\ snake_key \in SnakeKeys
    /\ snake_out = <<>>
    /\ IdleSplit /\ IdlePre /\ IdleNorm /\ IdleMerge /\ InitDriver

NextSnake == CallToSnake

SpecSnake == InitSnake /\ [][NextSnake]_vars

---------------------------------------------------------------------------
(* merge_all_json_outputs, step by step *)

\* lines 110-115
MergeBegin ==
    /\ m_pc = "start"
    /\ m_combined' = PyDict(MergeInit)
    /\ m_idx' = 0
    /\ m_pc' = "loop"
    /\ UNCHANGED <<m_results, m_prev, rest_of_merge>>

\* lines 117-127: the next chunk result
MergeNextChunk ==
    /\ m_pc = "loop"
    /\ m_idx < Len(m_results)
    /\ m_combined' = PyDict(MergeChunk(m_combined.d, m_results[m_idx + 1]))
    /\ m_idx' = m_idx + 1
    /\ UNCHANGED <<m_results, m_pc, m_prev, rest_of_merge>>

\* lines 129-143: the loop is over; deduplicate and return
MergeDedup ==
    /\ m_pc = "loop"
    /\ m_idx = Len(m_results)
    /\ m_combined' = PyDict(DedupAll(m_combined.d))
    /\ m_pc' = "done"
    /\ UNCHANGED <<m_results, m_idx, m_prev, rest_of_merge>>

\* merge_all_json_outputs has returned; it is called again, with what it
\* returned as the only chunk result.
MergeResultAgain ==
    /\ m_pc = "done"
    /\ m_prev = None
    /\ m_prev' = m_combined
    /\ m_results' = <<m_combined.d>>
    /\ m_combined' = None
    /\ m_idx' = 0
    /\ m_pc' = "start"
    /\ UNCHANGED rest_of_merge

InitMerge ==
    /\ m_results \in SeqsUpTo(ChunkResults, MaxChunks)
    /\ m_combined = None
    /\ m_idx = 0
    /\ m_pc = "start"
    /\ m_prev = None
    /\ IdleSplit /\ IdlePre /\ IdleNorm /\ IdleSnake /\ InitDriver

NextMerge == MergeBegin \/ MergeNextChunk \/ MergeDedup \/ MergeResultAgain

SpecMerge == InitMerge /\ [][NextMerge]_vars

---------------------------------------------------------------------------
(* The driver, streamlit_app.py 327-457 *)

\* line 327
CanRun(text, key) == text # <<>> /\ key # <<>>

\* lines 352-354
NumPartsToUse(model_choice, final_num_divisions) ==
    IF model_choice = "gemini-2.5-flash" THEN final_num_divisions ELSE 1

AppendResult_front(results, data_json) == <<data_json>> \o results

\* line 379
AppendResult(results, data_json) == Append(results, data_json)

\* line 382
ResultsAfterFailure(results) == <<>>

\* Lines 336-363: the button is pressed; it is enabled (line 331) when
\* can_run holds and processing is off.
ClickRun(text, key, model_choice, final_num_divisions) ==
    /\ pc = "idle"
    /\ CanRun(text, key)
    /\ ~processing
    /\ processing' = TRUE
    /\ chunked_results' = <<>>
    /\ api_key' = key
    /\ transcript_parts' =
          split_transcript_by_parts(text, NumPartsToUse(model_choice, final_num_divisions))
    /\ part_no' = 1
    /\ pc' = "loop"
    /\ error_shown' = None
    /\ combined_data' = None
    /\ calls' = <<>>
    /\ failed_part' = 0
    /\ call_rets' = <<>>
    /\ UNCHANGED <<pdf_ready, rest_of_driver>>

\* Lines 365-383 and 393-394: one turn of the loop, for part part_no; gen is
\* what the generation call gives.  An exception that leaves
\* run_analysis_and_summarize leaves the loop too: the finally clause runs
\* and the script run ends.
AnalyzePart(gen) ==
    /\ pc = "loop"
    /\ part_no <= Len(transcript_parts)
    /\ LET preprocessed_part == preprocess_transcript(transcript_parts[part_no])
           ret == run_analysis_and_summarize(api_key, preprocessed_part, gen)
       IN  /\ calls' = Append(calls, part_no)
           /\ call_rets' = Append(call_rets, ret)
           /\ IF ret.exc # None
              THEN /\ processing' = FALSE
                   /\ pc' = "idle"
                   /\ UNCHANGED <<chunked_results, part_no, error_shown, failed_part>>
              ELSE IF Truthy(ret.data)
              THEN /\ chunked_results' = AppendResult(chunked_results, ret.data)
                   /\ part_no' = part_no + 1
                   /\ pc' = IF part_no = Len(transcript_parts) THEN "after_loop" ELSE "loop"
                   /\ UNCHANGED <<processing, error_shown, failed_part>>
              ELSE /\ error_shown' = [part |-> part_no, msg |-> ret.err]
                   /\ chunked_results' = ResultsAfterFailure(chunked_results)
                   /\ failed_part' = part_no
                   /\ pc' = "after_loop"
                   /\ UNCHANGED <<processing, part_no>>
    /\ UNCHANGED <<pdf_ready, api_key, transcript_parts, combined_data, rest_of_driver>>

\* Lines 365-376 and 393-394: a call of the loop body raises before the
\* result is looked at; the finally clause runs and the script run ends.
RaiseInLoop ==
    /\ pc = "loop"
    /\ processing' = FALSE
    /\ pc' = "idle"
    /\ UNCHANGED <<chunked_results, pdf_ready, api_key, transcript_parts, part_no,
                   error_shown, combined_data, calls, failed_part, call_rets,
                   rest_of_driver>>

\* lines 385-394
FinishRun ==
    /\ pc = "after_loop"
    /\ pdf_ready' = PyBool(chunked_results # <<>>)
    /\ processing' = FALSE
    /\ pc' = "output"
    /\ UNCHANGED <<chunked_results, api_key, transcript_parts, part_no, error_shown,
                   combined_data, calls, failed_part, call_rets, rest_of_driver>>

\* A script run without a press of the button (any other widget changed):
\* line 336 is false and the run goes on to the output section.
Rerun ==
    /\ pc = "idle"
    /\ pc' = "output"
    /\ combined_data' = None
    /\ UNCHANGED <<processing, chunked_results, pdf_ready, api_key, transcript_parts,
                   part_no, error_shown, calls, failed_part, call_rets, rest_of_driver>>

\* Lines 399-457: the output section, with the choice of line 401.
ShowOutput(combine) ==
    /\ pc = "output"
    /\ combined_data' =
          IF chunked_results # <<>> /\ combine
          THEN PyDict(merge_all_json_outputs([n \in 1..Len(chunked_results) |->
                                                 chunked_results[n].d]))
          ELSE None
    /\ pc' = "idle"
    /\ UNCHANGED <<processing, chunked_results, pdf_ready, api_key, transcript_parts,
                   part_no, error_shown, calls, failed_part, call_rets, rest_of_driver>>

Init == InitDriver /\ IdleSplit /\ IdlePre /\ IdleNorm /\ IdleSnake /\ IdleMerge

Next ==
    \/ \E text \in DriverTexts, key \in ApiKeys, model_choice \in Models,
          final_num_divisions \in Divisions :
            ClickRun(text, key, model_choice, final_num_divisions)
    \/ \E gen \in DriverGens : AnalyzePart(gen)
    \/ RaiseInLoop
    \/ FinishRun
    \/ Rerun
    \/ \E combine \in BOOLEAN : ShowOutput(combine)

Spec == Init /\ [][Next]_vars

---------------------------------------------------------------------------
(* Claims about split_transcript_by_parts (under SpecSplit) *)

SplitParts == split_ret.l

RECURSIVE LenSum(_, _)
\* Total length of the first j parts: the offset at which part j + 1 starts.
LenSum(parts, j) == IF j = 0 THEN 0 ELSE LenSum(parts, j - 1) + Len(parts[j])

\* C5: for every string s and every k >= 1 the parts of
\* split_transcript_by_parts(s, k) are contiguous, non-overlapping slices of
\* s (part j starts where part j - 1 ended, the first at offset 0, the last
\* ending at len(s)) and their concatenation in order is exactly s.
C5_SplitRoundTrip ==
    (split_ret # None /\ num_parts >= 1) =>
        /\ Flatten(SplitParts) = transcript
        /\ LenSum(SplitParts, Len(SplitParts)) = Len(transcript)
        /\ \A j \in 1..Len(SplitParts) :
              SplitParts[j] = Slice(transcript, LenSum(SplitParts, j - 1),
                                    LenSum(SplitParts, j))

\* A split into several parts whose last part absorbs a remainder.
C5_Witness ==
    /\ split_ret # None
    /\ num_parts >= 2
    /\ Len(SplitParts) >= 2
    /\ Len(transcript) % Len(SplitParts) # 0
    /\ Len(SplitParts[Len(SplitParts)]) > Len(SplitParts[1])

\* C6: split_transcript_by_parts(s, k) returns exactly max(1, min(k, len(s)))
\* parts for every s and every integer k: one empty part when s is empty,
\* at most len(s) parts when len(s) >= 1, and exactly k parts, none of them
\* empty, when 1 <= k <= len(s).
C6_SplitCount ==
    split_ret # None =>
        LET n == Len(SplitParts)
            length == Len(transcript)
        IN  /\ n = (IF num_parts < 1 \/ length = 0 THEN 1
                    ELSE IF num_parts > length THEN length ELSE num_parts)
            /\ (length = 0 => SplitParts = << <<>> >>)
            /\ (length >= 1 => n <= length)
            /\ (num_parts >= 1 /\ num_parts <= length =>
                    n = num_parts /\ \A j \in 1..n : SplitParts[j] # <<>>)

\* More parts asked for than there are characters: the count is clamped.
C6_Witness ==
    /\ split_ret # None
    /\ Len(transcript) >= 2
    /\ num_parts > Len(transcript)
    /\ Len(SplitParts) = Len(transcript)

---------------------------------------------------------------------------
(* Claims about preprocess_transcript (under SpecPre) *)

PreSegments == pre_ret.l
PreTokens == FindIter(pre_text, 0)

DigitVal(c) ==
    CASE c = "0" -> 0 [] c = "1" -> 1 [] c = "2" -> 2 [] c = "3" -> 3 [] c = "4" -> 4
      [] c = "5" -> 5 [] c = "6" -> 6 [] c = "7" -> 7 [] c = "8" -> 8 [] c = "9" -> 9

RECURSIVE TimestampSeconds(_, _, _)
\* The seconds value of a token [hh:]mm:ss: fields separated by ":", each
\* field worth sixty of the next.  total: the fields read so far; field: the
\* digits of the current field.
TimestampSeconds(ts, total, field) ==
    IF ts = <<>> THEN total * 60 + field
    ELSE IF Head(ts) = ":" THEN TimestampSeconds(Tail(ts), total * 60 + field, 0)
    ELSE TimestampSeconds(Tail(ts), total, field * 10 + DigitVal(Head(ts)))

\* The text between the end of token i and the start of the next token (or
\* the end of the text).
TextAfterToken(i) ==
    Slice(pre_text, PreTokens[i].end,
          IF i < Len(PreTokens) THEN PreTokens[i + 1].start ELSE Len(pre_text))

\* With timestamp tokens present there is one segment per token, in token
\* order, holding the trimmed text up to the next token.
PreSegmentsFollowTokens ==
    (pre_ret # None /\ PreTokens # <<>>) =>
        /\ Len(PreSegments) = Len(PreTokens)
        /\ \A i \in 1..Len(PreTokens) : PreSegments[i].text = Strip(TextAfterToken(i))

\* C7: for a text with timestamp tokens, preprocess_transcript returns one
\* segment per token in left-to-right order, each with the trimmed text that
\* follows its token and with time the parsed seconds value (a non-negative
\* integer) of that token.
C7_SegmentsCarrySeconds ==
    (pre_ret # None /\ PreTokens # <<>>) =>
        /\ Len(PreSegments) = Len(PreTokens)
        /\ \A i \in 1..Len(PreTokens) :
              /\ PreSegments[i].text = Strip(TextAfterToken(i))
              /\ PreSegments[i].time =
                    PyInt(TimestampSeconds(Group1(pre_text, PreTokens[i]), 0, 0))

\* C8: with no timestamp token, preprocess_transcript returns the empty
\* sequence for the empty text and otherwise exactly one segment with
\* time = 0 and text the whole trimmed input.
C8_NoTimestampSegment ==
    (pre_ret # None /\ PreTokens = <<>>) =>
        IF pre_text = <<>> THEN PreSegments = <<>>
        ELSE PreSegments = <<[time |-> PyInt(0), text |-> Strip(pre_text)]>>

\* What the code returns with no timestamp token: the time is the text "00:00".
PreNoTimestampAsCoded ==
    (pre_ret # None /\ PreTokens = <<>>) =>
        IF pre_text = <<>> THEN PreSegments = <<>>
        ELSE PreSegments = <<[time |-> PyStr(<<"0", "0", ":", "0", "0">>),
                              text |-> Strip(pre_text)]>>

---------------------------------------------------------------------------
(* Claims about the driver (under Spec) *)

\* Call n of this run failed: an exception left the analysis, or it returned
\* nothing the driver takes as a result.
AnalysisFailed(n) == call_rets[n].exc # None \/ ~Truthy(call_rets[n].data)

\* No run is under way: the script run is before the press of the button or
\* past the finally clause.
NoRunUnderWay == pc \in {"idle", "output"}

\* C1: in a run over N parts, if the analysis of part i fails, no analysis
\* (generation call) is made for a part after i, chunked_results is empty
\* when the run ends, whatever parts 1..i-1 had put in it, and
\* merge_all_json_outputs is not invoked: combined_data stays unset.
C1_FailureAborts ==
    \A i \in 1..Len(calls) :
        AnalysisFailed(i) =>
            /\ \A n \in 1..Len(calls) : calls[n] <= calls[i]
            /\ NoRunUnderWay => chunked_results = <<>>
            /\ combined_data = None

\* The same when the failure is one the analysis returns, the failure the
\* driver sees at line 378: it holds from the failure on.
ReturnedFailureAborts ==
    failed_part # 0 =>
        /\ \A n \in 1..Len(calls) : calls[n] <= failed_part
        /\ chunked_results = <<>>
        /\ combined_data = None

---------------------------------------------------------------------------
(* Claims about merge_all_json_outputs (under SpecMerge) *)

\* The list a chunk result holds under section key k (none: the empty list)
ChunkList(res, k) ==
    IF DictHas(res, k) /\ DictGet(res, k).t = "list" THEN DictGet(res, k).l ELSE <<>>

\* The lists of the first n chunk results under k, one after the other
ConcatLists(results, n, k) == Flatten([i \in 1..n |-> ChunkList(results[i], k)])

CombinedList(k) == DictGet(m_combined.d, k).l

\* C2: before deduplication the combined list of every section key is the
\* concatenation of the chunks' lists for that key, in chunk order, each
\* chunk's items in their own order; it is so after every chunk merged.
C2_MergeConcatOrder ==
    m_pc = "loop" =>
        \A k \in ListKeySet : CombinedList(k) = ConcatLists(m_results, m_idx, k)

\* All chunks merged, not yet deduplicated, and two chunks gave different
\* non-empty lists for key_points.
C2_Witness ==
    /\ m_pc = "loop"
    /\ m_idx = Len(m_results)
    /\ Len(m_results) >= 2
    /\ ChunkList(m_results[1], key_points) # <<>>
    /\ ChunkList(m_results[2], key_points) # <<>>
    /\ ChunkList(m_results[1], key_points) # ChunkList(m_results[2], key_points)
    /\ CombinedList(key_points) =
          ChunkList(m_results[1], key_points) \o ChunkList(m_results[2], key_points)

RECURSIVE SameItem(_, _)
\* Two items have the same canonical key: equal values, the fields of a
\* record compared by name whatever their order.
SameItem(a, b) ==
    IF a.t # b.t THEN FALSE
    ELSE IF a.t = "dict"
    THEN /\ Len(a.d) = Len(b.d)
         /\ \A i \in 1..Len(a.d) :
               /\ DictHas(b.d, a.d[i].k)
               /\ SameItem(a.d[i].v, DictGet(b.d, a.d[i].k))
    ELSE IF a.t = "list"
    THEN /\ Len(a.l) = Len(b.l)
         /\ \A i \in 1..Len(a.l) : SameItem(a.l[i], b.l[i])
    ELSE a = b

RECURSIVE FirstOccurrences(_, _)
\* The items of `items` from position i on that no earlier item equals
FirstOccurrences(items, i) ==
    IF i > Len(items) THEN <<>>
    ELSE (IF \E j \in 1..(i - 1) : SameItem(items[j], items[i]) THEN <<>> ELSE <<items[i]>>)
            \o FirstOccurrences(items, i + 1)

\* C3: for every section key the returned list has no two items with the
\* same canonical key, has every distinct item of the concatenated input,
\* and keeps the items in the order of their first occurrence.
C3_DedupFirstOccurrence ==
    m_pc = "done" =>
        \A k \in ListKeySet :
            LET input == ConcatLists(m_results, Len(m_results), k)
                out == CombinedList(k)
            IN  /\ \A i, j \in 1..Len(out) : i # j => ~SameItem(out[i], out[j])
                /\ \A i \in 1..Len(input) : \E j \in 1..Len(out) : SameItem(input[i], out[j])
                /\ out = FirstOccurrences(input, 1)

\* Returned, and key_points held an item, another, then the first again
\* (once with its fields in another order).
C3_Witness ==
    /\ m_pc = "done"
    /\ LET input == ConcatLists(m_results, Len(m_results), key_points)
       IN  /\ Len(input) >= 3
           /\ \E i, j, n \in 1..Len(input) :
                 /\ i < j /\ j < n
                 /\ SameItem(input[i], input[n])
                 /\ input[i] # input[n]
                 /\ ~SameItem(input[i], input[j])
           /\ Len(CombinedList(key_points)) < Len(input)
           /\ Len(CombinedList(key_points)) >= 2

\* The main_subject of a chunk result (None: it has none)
ChunkSubject(res) == IF DictHas(res, main_subject) THEN DictGet(res, main_subject) ELSE None

\* str(v).strip()
TrimmedText(v) == Strip(StrOf(v))

FirstIndex(S) == CHOOSE i \in S : \A j \in S : i <= j

CombinedSubject == DictGet(m_combined.d, main_subject)

\* C4 as stated: the returned main_subject is the trimmed main_subject of
\* the first chunk whose main_subject is non-empty, and "" if there is none.
C4_FirstNonEmptySubject ==
    m_pc = "done" =>
        LET nonempty == {i \in 1..Len(m_results) : Truthy(ChunkSubject(m_results[i]))}
        IN  CombinedSubject =
                IF nonempty = {} THEN PyStr(<<>>)
                ELSE PyStr(TrimmedText(ChunkSubject(m_results[FirstIndex(nonempty)])))

\* C4 amended: the returned main_subject is the trimmed main_subject of the
\* first chunk whose main_subject is non-empty and still non-empty once
\* trimmed, and "" if there is none; a blank subject is passed over like an
\* empty one and the subjects of later chunks are ignored.
C4_FirstNonBlankSubject ==
    m_pc = "done" =>
        LET nonblank == {i \in 1..Len(m_results) :
                            /\ Truthy(ChunkSubject(m_results[i]))
                            /\ TrimmedText(ChunkSubject(m_results[i])) # <<>>}
        IN  CombinedSubject =
                IF nonblank = {} THEN PyStr(<<>>)
                ELSE PyStr(TrimmedText(ChunkSubject(m_results[FirstIndex(nonblank)])))

\* Returned for three chunks: a blank subject, then " Calc ", then "Ign".
C4_Witness ==
    /\ m_pc = "done"
    /\ Len(m_results) = 3
    /\ ChunkSubject(m_results[1]) = PyStr(S_blank)
    /\ ChunkSubject(m_results[2]) = PyStr(S_Calc)
    /\ ChunkSubject(m_results[3]) = PyStr(S_Ign)
    /\ CombinedSubject = PyStr(<<"C", "a", "l", "c">>)

---------------------------------------------------------------------------
(* Claims about run_analysis_and_summarize (under SpecNorm) *)

NormSucceeded == norm_ret # None /\ norm_ret.data # None

\* The object json.loads gave in a call that succeeded
ParsedObject == JsonLoads(extract_clean_json(norm_gen.text.s).s).d

\* C9: the result returned on success has all nine section keys, each
\* mapped to a sequence, and main_subject mapped to a string.
C9_BackfillComplete ==
    NormSucceeded =>
        /\ \A k \in ListKeySet :
              DictHas(norm_ret.data.d, k) /\ DictGet(norm_ret.data.d, k).t = "list"
        /\ DictHas(norm_ret.data.d, main_subject)
        /\ DictGet(norm_ret.data.d, main_subject).t = "str"

\* C10: a section key of the parsed object whose value is not a sequence is
\* not dropped: its value, wrapped in a one-element sequence, is the
\* section in the normalized result and an item of it in the merged result.
C10_NonSequenceKept ==
    NormSucceeded =>
        \A i \in 1..Len(ParsedObject) :
            LET k == ParsedObject[i].k
                v == ParsedObject[i].v
            IN  (/\ k \in ListKeySet
                 /\ v.t # "list"
                 /\ \A j \in 1..Len(ParsedObject) : j # i => ToSnake(ParsedObject[j].k) # k)
                => /\ DictGet(norm_ret.data.d, k) = PyList(<<v>>)
                   /\ LET merged == DictGet(merge_all_json_outputs(<<norm_ret.data.d>>), k).l
                      IN  \E n \in 1..Len(merged) : merged[n] = v

\* C11: whatever the key and whatever the generation call gives,
\* run_analysis_and_summarize returns with exactly one of (result, error
\* reason) non-null, never both and never neither, and no exception raised
\* by the generation call or by the JSON parsing leaves the function.
C11_ExactlyOneOfResultError ==
    norm_ret # None =>
        /\ norm_ret.exc = None
        /\ (norm_ret.data = None) # (norm_ret.err = None)

\* The returned pair when no exception leaves the function: one of the two
\* is None, the other is not.
NormReturnedPairAsCoded ==
    (norm_ret # None /\ norm_ret.exc = None) =>
        (norm_ret.data = None) # (norm_ret.err = None)

\* The reason the code gives for each kind of failure (utils.py 243, 262,
\* 271, 305, 308)
ReasonOf(kind) ==
    CASE kind = "MissingCredential" -> Msg("API Key Missing")
      [] kind = "EmptyResponse" -> Msg("Empty response from model.")
      [] kind = "JsonNotFound" -> Msg("Could not extract JSON from response.")
      [] kind = "JsonParseError" -> Msg("JSON PARSE ERROR")
      [] kind = "ProviderError" -> Msg("Gemini API Error")

FailureKinds ==
    {"MissingCredential", "EmptyResponse", "JsonNotFound", "JsonParseError", "ProviderError"}

\* The response text has a candidate shaped like an object: a "{" with a
\* "}" somewhere after it.
HasCandidate(text) ==
    \E i, j \in 1..Len(text) : i < j /\ text[i].t = "lbrace" /\ text[j].t = "rbrace"

GenRaised == norm_gen.t \in {"raise", "raise_decode"}

\* The reasons of the five kinds, given the key and what the generation
\* call gave.
ReasonsByKind ==
    /\ norm_ret.exc = None
    /\ norm_key = <<>> => norm_ret.err = ReasonOf("MissingCredential")
    /\ (norm_key # <<>> /\ GenRaised) => norm_ret.err = ReasonOf("ProviderError")
    /\ (norm_key # <<>> /\ ~GenRaised) =>
          IF ~Truthy(norm_gen.text) THEN norm_ret.err = ReasonOf("EmptyResponse")
          ELSE IF ~HasCandidate(norm_gen.text.s)
               THEN norm_ret.err = ReasonOf("JsonNotFound")
               ELSE norm_ret.data = None => norm_ret.err = ReasonOf("JsonParseError")

\* C12: the failure reason tells the failure kinds apart: no candidate
\* shaped like {...} gives JsonNotFound, a candidate that does not parse
\* JsonParseError, an empty response EmptyResponse, a generation call that
\* raised ProviderError, an absent API key MissingCredential whatever the
\* generation call would give; no two kinds share a reason.
C12_ReasonsDistinguishKinds ==
    norm_ret # None =>
        /\ ReasonsByKind
        /\ \A k1, k2 \in FailureKinds : k1 # k2 => ReasonOf(k1) # ReasonOf(k2)

\* The same for every outcome of the generation call but a raised
\* json.JSONDecodeError and a response with a value nested too deep.
NormReasonsAsCoded ==
    (/\ norm_ret # None
     /\ norm_gen.t # "raise_decode"
     /\ norm_gen.t = "text" /\ Truthy(norm_gen.text) =>
            \A i \in 1..Len(norm_gen.text.s) : norm_gen.text.s[i] # TokDeep)
        => ReasonsByKind

\* A candidate that does not parse because a value is nested too deep is
\* reported with the reason of a raised generation call.
DeepCandidateGivesProviderReason ==
    /\ norm_ret # None
    /\ norm_key # <<>>
    /\ norm_gen = GenText(PyStr(<<TokLBrace, TokDeep, TokRBrace>>))
    /\ norm_ret.err = ReasonOf("ProviderError")

---------------------------------------------------------------------------
(* More claims about the driver (under Spec) *)

\* Call n of this run returned a result the driver takes as a success
CallSucceeded(n) ==
    /\ call_rets[n].exc = None
    /\ call_rets[n].err = None
    /\ Truthy(call_rets[n].data)

\* The run went through all of its parts and none failed
RunFullySuccessful ==
    /\ pc # "loop"
    /\ Len(transcript_parts) >= 1
    /\ Len(calls) = Len(transcript_parts)
    /\ \A n \in 1..Len(calls) : CallSucceeded(n)

\* C13: in a run over N parts the generation call is made at most once per
\* part and in part order 1, 2, ...; the call for part i + 1 starts only
\* after the call for part i has returned successfully and its result has
\* been appended to chunked_results; after a fully successful run
\* chunked_results holds exactly N results, the i-th the result for part i.
C13_SequentialCalls ==
    /\ Len(calls) <= Len(transcript_parts)
    /\ Len(call_rets) = Len(calls)
    /\ \A n \in 1..Len(calls) :
          /\ calls[n] = n
          /\ call_rets[n].exc = None =>
                call_rets[n].prompt = preprocess_transcript(transcript_parts[n])
          /\ n < Len(calls) => CallSucceeded(n)
    /\ pc = "loop" =>
          /\ part_no = Len(calls) + 1
          /\ chunked_results = [n \in 1..Len(calls) |-> call_rets[n].data]
    /\ RunFullySuccessful =>
          chunked_results = [n \in 1..Len(transcript_parts) |-> call_rets[n].data]

\* A run of three parts, all analysed with success, the first two with
\* different results.
C13_Witness ==
    /\ RunFullySuccessful
    /\ Len(transcript_parts) = 3
    /\ calls = <<1, 2, 3>>
    /\ Len(chunked_results) = 3
    /\ chunked_results[1] # chunked_results[2]
    /\ ~processing

---------------------------------------------------------------------------
(* Claims about the key conversion (under SpecSnake) *)

\* A key already in snake_case: no upper-case letter in it
IsSnakeCase(key) == \A i \in 1..Len(key) : ~IsUpper(key[i])

\* The upper-case letters of a key that are not its first character
UpperInside(key) == {i \in 2..Len(key) : IsUpper(key[i])}

\* C14: the conversion of a key to snake_case (an underscore before each
\* upper-case letter that is not the first character, then lower case) is
\* idempotent: converting twice gives what converting once gives, and a key
\* already in snake_case is unchanged; "topicBreakdown" gives
\* "topic_breakdown", and that gives "topic_breakdown" again.
C14_SnakeIdempotent ==
    /\ Len(snake_out) >= 1 =>
          /\ Len(snake_out[1]) = Len(snake_key) + Cardinality(UpperInside(snake_key))
          /\ IsSnakeCase(snake_out[1])
          /\ IsSnakeCase(snake_key) => snake_out[1] = snake_key
          /\ snake_key = K_topicBreakdown => snake_out[1] = topic_breakdown
    /\ Len(snake_out) >= 2 => snake_out[2] = snake_out[1]

\* "topicBreakdown" converted, and the result converted again.
C14_Witness ==
    /\ snake_key = K_topicBreakdown
    /\ snake_out = <<topic_breakdown, topic_breakdown>>

---------------------------------------------------------------------------
(* More claims about merge_all_json_outputs (under SpecMerge) *)

\* Items a and b of the input are both kept: the list has an item that is
\* a, and at another place an item that is b (field order apart).
BothKept(list, a, b) ==
    \E p, q \in 1..Len(list) : p # q /\ SameItem(list[p], a) /\ SameItem(list[q], b)

\* C15: two items of a section are treated as duplicates (one of them
\* dropped) exactly when they have the same field names with equal values,
\* in whatever order the fields were inserted; two items that differ in a
\* field or a value are both kept.
C15_DuplicateIffSameFields ==
    m_pc = "done" =>
        \A k \in ListKeySet :
            LET input == ConcatLists(m_results, Len(m_results), k)
                out == CombinedList(k)
            IN  \A i, j \in 1..Len(input) :
                    i < j => (SameItem(input[i], input[j]) <=> ~BothKept(out, input[i], input[j]))

\* Returned, and short_tricks held a record, the same record with another
\* value, and the first record with its fields in the other order: the
\* first two are kept, the third is not.
C15_Witness ==
    /\ m_pc = "done"
    /\ m_prev = None
    /\ LET input == ConcatLists(m_results, Len(m_results), short_tricks)
       IN  /\ \E i, j, n \in 1..Len(input) :
                 i < j /\ j < n /\ input[i] = ItemA /\ input[j] = ItemC /\ input[n] = ItemA2
           /\ CombinedList(short_tricks) = <<ItemA, ItemC>>

CombinedKeys == {m_combined.d[i].k : i \in 1..Len(m_combined.d)}

\* C16: for every sequence of chunk results (the empty one, chunks with
\* unknown keys, with a list as main_subject, with main_subject alone)
\* merge_all_json_outputs returns an object whose keys are exactly
\* main_subject and the nine section keys, main_subject a string and never
\* a list, every section a sequence; the empty input gives main_subject ""
\* and nine empty sequences.
C16_MergedShape ==
    m_pc = "done" =>
        /\ Len(m_combined.d) = 10
        /\ CombinedKeys = {main_subject} \cup ListKeySet
        /\ CombinedSubject.t = "str"
        /\ \A k \in ListKeySet : DictGet(m_combined.d, k).t = "list"
        /\ m_results = <<>> =>
              /\ CombinedSubject = PyStr(<<>>)
              /\ \A k \in ListKeySet : CombinedList(k) = <<>>

\* Returned for three chunks: one has only unknown keys, one has only
\* main_subject, one has a non-empty list as main_subject, which is the
\* subject adopted, as text.
C16_Witness ==
    /\ m_pc = "done"
    /\ m_prev = None
    /\ Len(m_results) = 3
    /\ \E i \in 1..3 : DictHas(m_results[i], K_extra) /\ ~DictHas(m_results[i], main_subject)
    /\ \E i \in 1..3 : Len(m_results[i]) = 1 /\ DictHas(m_results[i], main_subject)
    /\ \E i \in 1..3 : ChunkSubject(m_results[i]) = PyList(<<PyStr(<<"x">>)>>)
    /\ CombinedSubject = PyStr(<<"[", "'", "x", "'", "]">>)

\* C17: merging is deterministic and idempotent: the result for the chunk
\* results R is the same each time it is computed, and merging the
\* one-element sequence made of that result gives that result again.
C17_MergeIdempotent ==
    m_pc = "done" =>
        /\ m_combined.d = merge_all_json_outputs(m_results)
        /\ m_prev # None => m_combined = m_prev

\* A result with a subject and two key points, merged again and returned.
C17_Witness ==
    /\ m_pc = "done"
    /\ m_prev # None
    /\ m_results = <<m_prev.d>>
    /\ CombinedSubject = PyStr(<<"C", "a", "l", "c">>)
    /\ Len(CombinedList(key_points)) >= 2

---------------------------------------------------------------------------
(* Claims about the driver's failure report and run state (under Spec) *)

\* C18: when the driver aborts a run at part i and reports a failure, the
\* reason it reports is the non-null error reason run_analysis_and_summarize
\* returned for part i; it never declares a part failed whose analysis
\* returned a result with a null error reason (the object of "{}" included).
C18_ReportedReasonIsReturned ==
    failed_part # 0 =>
        /\ error_shown # None
        /\ error_shown.part = failed_part
        /\ call_rets[failed_part].err # None
        /\ call_rets[failed_part].data = None
        /\ error_shown.msg = call_rets[failed_part].err

\* What the driver reports is the error member of what the analysis of the
\* failed part returned, null or not.
DriverReportAsCoded ==
    failed_part # 0 =>
        /\ error_shown # None
        /\ error_shown.part = failed_part
        /\ error_shown.msg = call_rets[failed_part].err

\* processing is on exactly during a run, and chunked_results holds results
\* of the latest run only, in call order.
RunStateAsCoded ==
    /\ processing <=> ~NoRunUnderWay
    /\ Len(chunked_results) <= Len(call_rets)
    /\ \A n \in 1..Len(chunked_results) : chunked_results[n] = call_rets[n].data

\* C19: across any sequence of runs, a run starts only with processing
\* False; from its start processing is True and chunked_results holds
\* results of this run only (it is reset at the start); and when the run has
\* ended, by success, by a failed part or by an exception raised inside the
\* loop, processing is False again and pdf_ready is True only if
\* chunked_results is non-empty.
C19_RunStateConsistent ==
    /\ RunStateAsCoded
    /\ NoRunUnderWay => (pdf_ready = PyBool(TRUE) => chunked_results # <<>>)

====
